---------------------------- MODULE Spec2Model ----------------------------
(***************************************************************************)
(* Model of the collection tools of chroma_mcp                             *)
(* (src/chroma_mcp/tools/collection_tools.py).                             *)
(*                                                                         *)
(* One action per tool implementation.  An action is a whole tool call:    *)
(* the calls of the try body in source order, the fault (if any) the       *)
(* validator, an accessor or the client raises at one of them, the except  *)
(* chain that maps the fault to an McpError, and the effect of the client  *)
(* calls that succeeded on the client's collections.                       *)
(*                                                                         *)
(* Text is modelled by TLA+ strings, character for character: str.lower(), *)
(* the "in" substring test and the f-strings are computed as Python        *)
(* computes them.                                                          *)
(***************************************************************************)
EXTENDS Integers, Sequences, FiniteSets, TLC

VARIABLES
    collections,                \* the client's collections: their names, in the client's order
    validationErrorIsValueError,\* whether utils.errors.ValidationError derives from ValueError
    last,                       \* the last tool call: its input, the calls it made, its outcome
    main_logger_instance,       \* utils._main_logger_instance: None or the logger (by its name)
    global_client_config,       \* utils._global_client_config: None or the configuration
    fallbackHandlers,           \* the handlers attached to the logger "chromamcp.unconfigured"
    rootHasHandlers,            \* whether an ancestor of that logger has a handler
    configWasSet,               \* history: set_server_config was called with a config that is not None
    loggerWasSet,               \* history: set_main_logger was called with a logger that is not None
    utilLast,                   \* the last call of a function of utils: its argument, its outcome
    metaIn,                     \* the items of a dict given to the metadata functions
    metaOut,                    \* the items of the dict the last of them returned
    metaStep,                   \* which of them was applied last
    loop                        \* the event loop: its tasks, the one it runs, the client calls made

\* the state of the tools and of the client
toolVars == <<collections, validationErrorIsValueError, last>>
\* the state of utils and of the logging module
utilVars == <<main_logger_instance, global_client_config, fallbackHandlers,
              rootHasHandlers, configWasSet, loggerWasSet, utilLast>>

\* the argument and the result of the metadata functions
metaVars == <<metaIn, metaOut, metaStep>>

vars == <<toolVars, utilVars, metaVars, loop>>

-----------------------------------------------------------------------------
(* Bounds of the model *)

\* the largest number of collections the client holds
MaxCollections == 3
\* the largest limit / offset a request carries
MaxPage == 2

\* collection names requests carry: two differ only in letter case, one contains another
Names == {"ab", "Ab", "cd", "abc"}

\* name_contains values a list request carries
Fragments == {"", "a", "B", "cd", "x"}

-----------------------------------------------------------------------------
(* Python values *)

\* Optional[...]: None is the empty tuple, a value v is <<v>>
None == <<>>
Some(v) == <<v>>
IsNone(o) == o = <<>>
Val(o) == o[1]

\* Python's truth value of an Optional[str]
Truthy(o) == ~IsNone(o) /\ Val(o) # ""

Min(a, b) == IF a <= b THEN a ELSE b

\* str.lower() of one character
LowerChar(c) ==
    CASE c = "A" -> "a" [] c = "B" -> "b" [] c = "C" -> "c" [] c = "D" -> "d"
      [] c = "E" -> "e" [] c = "F" -> "f" [] c = "G" -> "g" [] c = "H" -> "h"
      [] c = "I" -> "i" [] c = "J" -> "j" [] c = "K" -> "k" [] c = "L" -> "l"
      [] c = "M" -> "m" [] c = "N" -> "n" [] c = "O" -> "o" [] c = "P" -> "p"
      [] c = "Q" -> "q" [] c = "R" -> "r" [] c = "S" -> "s" [] c = "T" -> "t"
      [] c = "U" -> "u" [] c = "V" -> "v" [] c = "W" -> "w" [] c = "X" -> "x"
      [] c = "Y" -> "y" [] c = "Z" -> "z" [] OTHER -> c

\* str.lower()
RECURSIVE Lower(_)
Lower(s) ==
    IF Len(s) = 0 THEN ""
    ELSE LowerChar(SubSeq(s, 1, 1)) \o Lower(SubSeq(s, 2, Len(s)))

\* Python's  sub in s  on strings
Contains(sub, s) ==
    \E i \in 1..(Len(s) - Len(sub) + 1) : SubSeq(s, i, i + Len(sub) - 1) = sub

\* Python's  seq[start:end]  for start >= 0 and end None or >= 0
Slice(seq, start, end) ==
    LET stop == IF IsNone(end) THEN Len(seq) ELSE Min(Val(end), Len(seq))
    IN  SubSeq(seq, start + 1, stop)

Range(seq) == {seq[i] : i \in 1..Len(seq)}

-----------------------------------------------------------------------------
(* Python objects: each value carries its type as its one field name, so that *)
(* values of different types are different values                            *)

PyNone == [none |-> TRUE]
PyStr(s) == [str |-> s]
PyNum(n) == [num |-> n]
PyBool(b) == [bool |-> b]
PyList(seq) == [list |-> seq]
\* a dict: its items, <<key, value>> pairs in insertion order, keys unique
PyDict(items) == [dict |-> items]
\* a numpy array (an object with a tolist() method): its elements
NdArray(seq) == [ndarray |-> seq]

IsPyNone(v) == "none" \in DOMAIN v
IsPyList(v) == "list" \in DOMAIN v
IsPyDict(v) == "dict" \in DOMAIN v
\* hasattr(v, "tolist")
HasToList(v) == "ndarray" \in DOMAIN v
\* v.tolist(): the list form of an array, arrays inside it included
RECURSIVE ToList(_)
ToList(v) ==
    PyList([i \in 1..Len(v.ndarray) |->
                IF HasToList(v.ndarray[i]) THEN ToList(v.ndarray[i]) ELSE v.ndarray[i]])

\* the keys of the items of a dict
Keys(items) == {items[i][1] : i \in 1..Len(items)}
\* d[key], for a key of d
Get(items, key) == items[CHOOSE i \in 1..Len(items) : items[i][1] = key][2]
\* d[key] = value
Set(items, key, value) ==
    IF key \in Keys(items)
    THEN [i \in 1..Len(items) |-> IF items[i][1] = key THEN <<key, value>> ELSE items[i]]
    ELSE Append(items, <<key, value>>)
\* del d[key]
Del(items, key) == SelectSeq(items, LAMBDA it : it[1] # key)

\* str.startswith
StartsWith(s, prefix) == Len(s) >= Len(prefix) /\ SubSeq(s, 1, Len(prefix)) = prefix

\* str.replace(old, new) for one-character old and new
RECURSIVE Replace(_, _, _)
Replace(s, old, new) ==
    IF Len(s) = 0 THEN ""
    ELSE (IF SubSeq(s, 1, 1) = old THEN new ELSE SubSeq(s, 1, 1))
             \o Replace(SubSeq(s, 2, Len(s)), old, new)

-----------------------------------------------------------------------------
(* The error envelope and the exceptions *)

INVALID_PARAMS == -32602
INTERNAL_ERROR == -32603
\* a JSON-RPC error code that is neither of the two (INVALID_REQUEST)
OtherCodes == {-32600}

\* an exception: its class, str(e), and for an McpError its ErrorData code
Exc(cls, msg, code) == [cls |-> cls, msg |-> msg, code |-> code]
NoExc == Exc("", "", 0)

McpError(code, message) == Exc("McpError", message, code)

\* the messages the library raises with, as the tests give them
NotExistMsg(n) == "Collection " \o n \o " does not exist."
AlreadyExistsMsg(n) == "Collection " \o n \o " already exists."
GenericMsg == "Database connection failed"
InvalidNameMsg == "Invalid collection name"

\* the classes of the exceptions a call can raise (each a subclass of Exception)
PlainClasses == {"ValidationError", "ValueError", "InvalidDimensionException", "Exception"}

\* every exception a call can raise, with the messages msgs
Raisable(msgs) ==
    {Exc(c, m, 0) : c \in PlainClasses, m \in msgs}
        \cup {McpError(code, GenericMsg) : code \in OtherCodes \cup {INTERNAL_ERROR}}

\* isinstance(e, cls), deciding which except clause takes e
IsInstance(e, cls) ==
    \/ cls = "Exception"
    \/ e.cls = cls
    \/ cls = "ValueError" /\ e.cls = "ValidationError" /\ validationErrorIsValueError


-----------------------------------------------------------------------------
(* Calls into the validator, the accessors and the client *)

\* one call: the function or method, its name argument ("" when it has none),
\* its limit argument (0 when it has none) and the items of its other keyword
\* arguments
CallWith(fn, name, limit, kwargs) ==
    [fn |-> fn, name |-> name, limit |-> limit, kwargs |-> kwargs]
Call(fn, name, limit) == CallWith(fn, name, limit, <<>>)

\* create_collection(..., get_or_create=...) of a call
GetOrCreate(c) == "get_or_create" \in Keys(c.kwargs) /\ Get(c.kwargs, "get_or_create").bool

\* the methods of the client and of a collection object
ClientMethods ==
    {"create_collection", "get_collection", "list_collections",
     "delete_collection", "modify", "count", "peek"}

\* whether the client can carry out the call on the collections cs
CanSucceed(cs, c) ==
    CASE c.fn = "create_collection" ->
             IF c.name \in Range(cs) THEN GetOrCreate(c) ELSE Len(cs) < MaxCollections
      [] c.fn = "get_collection"    -> c.name \in Range(cs)
      [] c.fn = "delete_collection" -> c.name \in Range(cs)
      [] c.fn = "modify"            -> c.name \notin Range(cs)
      [] OTHER                      -> TRUE

\* the collections after the client carried out call c; target is the
\* collection object the tool holds (the name it was got or created with)
Effect(cs, c, target) ==
    CASE c.fn = "create_collection" ->
             IF c.name \in Range(cs) THEN cs ELSE Append(cs, c.name)
      [] c.fn = "delete_collection" ->
             SelectSeq(cs, LAMBDA n : n # c.name)
      [] c.fn = "modify" ->
             [i \in 1..Len(cs) |-> IF cs[i] = target THEN c.name ELSE cs[i]]
      [] OTHER -> cs

\* the collections after the calls of a sequence, in order
RECURSIVE After(_, _, _)
After(cs, calls, target) ==
    IF calls = <<>> THEN cs
    ELSE After(Effect(cs, Head(calls), target), Tail(calls), target)

\* whether the client can carry out each call of a sequence, in order
RECURSIVE Feasible(_, _, _)
Feasible(cs, calls, target) ==
    IF calls = <<>> THEN TRUE
    ELSE IF ~CanSucceed(cs, Head(calls)) THEN FALSE
    ELSE Feasible(Effect(cs, Head(calls), target), Tail(calls), target)

\* a fault: the exception exc raised by the at-th call of the try body
Fault(at, exc) == [at |-> at, exc |-> exc]
NoFault == Fault(0, NoExc)

Faults(steps, msgs) ==
    {NoFault} \cup {Fault(k, e) : k \in 1..Len(steps), e \in Raisable(msgs)}

\* the calls a tool call made, and those that returned
Executed(steps, f) == IF f.at = 0 THEN steps ELSE SubSeq(steps, 1, f.at)
Succeeded(steps, f) == IF f.at = 0 THEN steps ELSE SubSeq(steps, 1, f.at - 1)

\* whether a call of fn is among the calls that returned
Answered(steps, f, fn) ==
    \E i \in 1..Len(Succeeded(steps, f)) : steps[i].fn = fn

-----------------------------------------------------------------------------
(* What the accessors and the client return to a tool call *)

\* get_collection_settings(): the items of the default settings
SettingsDicts ==
    { << <<"hnsw:space", PyStr("cosine")>> >>,
      << <<"hnsw:space", PyStr("l2")>>, <<"hnsw:construction_ef", PyNum(100)>> >> }

\* collection.metadata of a collection the client returns: None, flattened
\* settings, user keys
StoredMetadata ==
    { PyNone,
      PyDict(<< <<"chroma:setting:hnsw_space", PyStr("cosine")>>,
                <<"description", PyStr("d")>> >>),
      PyDict(<< <<"hnsw:M", PyNum(16)>>, <<"chroma:version", PyNum(1)>>,
                <<"owner", PyStr("me")>> >>) }

\* collection.count()
Counts == {0, 2}

\* collection.peek(): None, or a dict of lists in which the embeddings are
\* absent, None, a list of arrays and None, a list of lists of arrays, or one
\* two-dimensional array; the last one carries an array under another key
PeekResults ==
    { PyNone,
      PyDict(<< <<"ids", PyList(<<>>)>>, <<"documents", PyList(<<>>)>> >>),
      PyDict(<< <<"ids", PyList(<<PyStr("1")>>)>>, <<"embeddings", PyNone>> >>),
      PyDict(<< <<"ids", PyList(<<PyStr("1"), PyStr("2")>>)>>,
                <<"embeddings", PyList(<<NdArray(<<PyNum(1), PyNum(2)>>), PyNone>>)>> >>),
      PyDict(<< <<"ids", PyList(<<PyList(<<PyStr("1")>>)>>)>>,
                <<"embeddings", PyList(<<PyList(<<NdArray(<<PyNum(1)>>), PyNum(2)>>)>>)>>,
                <<"distances", PyList(<<PyList(<<PyNum(1), PyNum(2)>>)>>)>> >>),
      PyDict(<< <<"ids", PyList(<<PyStr("1")>>)>>,
                <<"embeddings", NdArray(<<NdArray(<<PyNum(1), PyNum(2)>>)>>)>> >>),
      PyDict(<< <<"ids", PyList(<<PyStr("1")>>)>>,
                <<"data", PyList(<<NdArray(<<PyNum(1)>>)>>)>> >>) }

\* what one tool call is given: by get_collection_settings, as the metadata
\* of the collection object, by count and by peek
Response(settings, metadata, count, peek) ==
    [settings |-> settings, metadata |-> metadata, count |-> count, peek |-> peek]

\* nothing was returned
NoResponse == Response(<<>>, PyNone, 0, PyNone)

\* the answers that matter to each tool
CreateResponses(s) ==
    {Response(s, m, c, PyNone) : m \in StoredMetadata, c \in Counts}
CreateWithMetadataResponses ==
    {Response(<<>>, m, c, PyNone) : m \in StoredMetadata, c \in Counts}
GetResponses ==
    {Response(<<>>, m, c, p) : m \in StoredMetadata, c \in Counts, p \in PeekResults}
PeekResponses ==
    {Response(<<>>, PyNone, 0, p) : p \in PeekResults}

\* the part of the response r the tool call came to see: an answer it did
\* not get is left as in NoResponse
Seen(steps, f, r) ==
    Response(IF Answered(steps, f, "get_collection_settings") THEN r.settings ELSE <<>>,
             IF Answered(steps, f, "get_collection") \/ Answered(steps, f, "create_collection")
                 THEN r.metadata ELSE PyNone,
             IF Answered(steps, f, "count") THEN r.count ELSE 0,
             IF Answered(steps, f, "peek") THEN r.peek ELSE PyNone)

\* the distinct answers the tool calls of a fault come to see, of those in R
SeenBy(steps, f, R) == {Seen(steps, f, r) : r \in R}

\* str(collection.id) of the collection named name
IdOf(name) == "id-" \o name

\* the object get_embedding_function() returns
EmbeddingFunction == [embedding_function |-> "default"]

-----------------------------------------------------------------------------
(* json.dumps *)

\* whether json.dumps accepts the value: None, str, int, bool, list and dict
\* of such values; an array raises TypeError
RECURSIVE JsonSerializable(_)
JsonSerializable(v) ==
    IF HasToList(v) THEN FALSE
    ELSE IF IsPyList(v) THEN \A i \in 1..Len(v.list) : JsonSerializable(v.list[i])
    ELSE IF IsPyDict(v) THEN \A i \in 1..Len(v.dict) : JsonSerializable(v.dict[i][2])
    ELSE TRUE

\* the exception json.dumps raises for an array
NotSerializable == Exc("TypeError", "Object of type ndarray is not JSON serializable", 0)

-----------------------------------------------------------------------------
(* Inputs and outcomes *)

Input(collection_name, new_name, limit, offset, name_contains, metadata) ==
    [collection_name |-> collection_name, new_name |-> new_name, limit |-> limit,
     offset |-> offset, name_contains |-> name_contains, metadata |-> metadata]

NoData == [shape |-> "none"]

\* return [types.TextContent(type="text", text=...)]: text is the literal text of
\* a confirmation, data the object that json.dumps writes
Returned(text, data) ==
    [kind |-> "returned", exc |-> NoExc, content |-> <<[type |-> "text"]>>,
     text |-> text, data |-> data]

\* the exception e leaves the tool call
Raised(e) == [kind |-> "raised", exc |-> e, content |-> <<>>, text |-> "", data |-> NoData]

\* one tool call, with the answers it was given
RecordWith(tool, input, steps, f, outcome, r) ==
    [tool |-> tool, input |-> input, trace |-> Executed(steps, f),
     fault |-> f, outcome |-> outcome, seen |-> Seen(steps, f, r)]

\* one tool call the answers to which carry no data
Record(tool, input, steps, f, outcome) ==
    RecordWith(tool, input, steps, f, outcome, NoResponse)
\* no tool call is in progress: the previous call's objects are gone
NoCall ==
    Record("none", Input("", "", None, None, None, ""), <<>>, NoFault, Returned("", NoData))

Idle == last = NoCall

\* an event loop with no task
NoLoop == [tasks |-> <<>>, running |-> 0, log |-> <<>>, start |-> <<>>]

-----------------------------------------------------------------------------
(* utils: the logger and the server configuration (src/chroma_mcp/utils/__init__.py) *)

BASE_LOGGER_NAME == "chromamcp"

\* logging.getLogger(name): loggers are singletons by name, a logger is its name
GetLoggerByName(name) == name

\* the logger get_logger falls back on while no main logger is set
FallbackLogger == GetLoggerByName(BASE_LOGGER_NAME \o ".unconfigured")

\* fallback_logger.hasHandlers(): a handler on the logger or on an ancestor
FallbackHasHandlers == fallbackHandlers > 0 \/ rootHasHandlers

\* the value a call returned, the exception it raised
UtilReturned(value) == [kind |-> "returned", value |-> value, exc |-> NoExc]
UtilRaised(e) == [kind |-> "raised", value |-> None, exc |-> e]

UtilCall(fn, arg, outcome) == [fn |-> fn, arg |-> arg, outcome |-> outcome]
NoUtilCall == UtilCall("none", None, UtilReturned(None))

\* GetLoggerResult as it would be with the fallback only for a call without a name
GetLoggerResultNamedFirst(name) ==
    IF ~IsNone(name) /\ Val(name) # ""
    THEN GetLoggerByName(BASE_LOGGER_NAME \o "." \o Val(name))
    ELSE IF IsNone(main_logger_instance)
    THEN FallbackLogger
    ELSE Val(main_logger_instance)

\* the logger get_logger(name) returns; name is an Optional[str]
GetLoggerResult(name) ==
    IF IsNone(main_logger_instance)
    THEN FallbackLogger
    ELSE IF ~IsNone(name) /\ Val(name) # ""
    THEN GetLoggerByName(BASE_LOGGER_NAME \o "." \o Val(name))
    ELSE Val(main_logger_instance)

\* HandlersAfterGetLogger as it would be if get_logger prepared the fallback
\* logger whether or not a main logger is set
HandlersAfterGetLoggerAlways ==
    IF ~FallbackHasHandlers
    THEN fallbackHandlers + 1
    ELSE fallbackHandlers

\* the handlers of the fallback logger after a get_logger call
HandlersAfterGetLogger ==
    IF IsNone(main_logger_instance) /\ ~FallbackHasHandlers
    THEN fallbackHandlers + 1
    ELSE fallbackHandlers

\* GetServerConfigOutcome as it would be if it raised only while no config was ever set
GetServerConfigOutcomeNeverSet ==
    IF ~configWasSet
    THEN UtilRaised(McpError(INTERNAL_ERROR, "Server configuration not initialized"))
    ELSE UtilReturned(global_client_config)

\* the outcome of get_server_config()
GetServerConfigOutcome ==
    IF IsNone(global_client_config)
    THEN UtilRaised(McpError(INTERNAL_ERROR, "Server configuration not initialized"))
    ELSE UtilReturned(global_client_config)

set_main_logger(logger) ==
    /\ main_logger_instance' = logger
    /\ utilLast' = UtilCall("set_main_logger", logger, UtilReturned(None))
    /\ UNCHANGED <<global_client_config, fallbackHandlers, rootHasHandlers, configWasSet>>
    /\ loggerWasSet' = (loggerWasSet \/ ~IsNone(logger))
    /\ UNCHANGED <<toolVars, metaVars, loop>>

set_server_config(config) ==
    /\ global_client_config' = config
    /\ configWasSet' = (configWasSet \/ ~IsNone(config))
    /\ UNCHANGED loggerWasSet
    /\ utilLast' = UtilCall("set_server_config", config, UtilReturned(None))
    /\ UNCHANGED <<main_logger_instance, fallbackHandlers, rootHasHandlers>>
    /\ UNCHANGED <<toolVars, metaVars, loop>>

get_logger(name) ==
    /\ fallbackHandlers' = HandlersAfterGetLogger
    /\ utilLast' = UtilCall("get_logger", name, UtilReturned(Some(GetLoggerResult(name))))
    /\ UNCHANGED <<main_logger_instance, global_client_config, rootHasHandlers, configWasSet, loggerWasSet>>
    /\ UNCHANGED <<toolVars, metaVars, loop>>

get_server_config ==
    /\ utilLast' = UtilCall("get_server_config", None, GetServerConfigOutcome)
    /\ UNCHANGED <<main_logger_instance, global_client_config, fallbackHandlers,
                   rootHasHandlers, configWasSet, loggerWasSet>>
    /\ UNCHANGED <<toolVars, metaVars, loop>>

\* ToolFrame as it would be if get_logger kept the logger it falls back on as
\* the main logger
ToolFrameKeepsLogger ==
    /\ fallbackHandlers' = HandlersAfterGetLogger
    /\ main_logger_instance' = IF IsNone(main_logger_instance)
                               THEN Some(FallbackLogger)
                               ELSE main_logger_instance
    /\ UNCHANGED <<validationErrorIsValueError, global_client_config,
                   rootHasHandlers, configWasSet, loggerWasSet, utilLast, metaVars, loop>>

\* what a tool call leaves alone, and its  logger = get_logger(...)  on entry
ToolFrame ==
    /\ fallbackHandlers' = HandlersAfterGetLogger
    /\ UNCHANGED <<validationErrorIsValueError, main_logger_instance, global_client_config,
                   rootHasHandlers, configWasSet, loggerWasSet, utilLast, metaVars, loop>>

-----------------------------------------------------------------------------
(* The metadata of a collection: flattened settings and their reconstruction *)

\* {f"chroma:setting:{k.replace(':', '_')}": v for k, v in default_settings.items()}
RECURSIVE FlattenSettings(_, _)
FlattenSettings(default_settings, final_metadata) ==
    IF default_settings = <<>> THEN final_metadata
    ELSE LET k == Head(default_settings)[1]
             v == Head(default_settings)[2]
         IN  FlattenSettings(Tail(default_settings),
                 Set(final_metadata, "chroma:setting:" \o Replace(k, ":", "_"), v))

\* the loop of _reconstruct_metadata over metadata.items(): <<reconstructed, settings>>
RECURSIVE ReconstructLoop(_, _, _)
ReconstructLoop(items, reconstructed, settings) ==
    IF items = <<>> THEN <<reconstructed, settings>>
    ELSE LET key   == Head(items)[1]
             value == Head(items)[2]
             setting_key_to_store ==
                 IF StartsWith(key, "chroma:setting:")
                 THEN Some(Replace(SubSeq(key, Len("chroma:setting:") + 1, Len(key)), "_", ":"))
                 ELSE IF StartsWith(key, "hnsw:")
                 THEN Some(key)
                 ELSE None
         IN  IF Truthy(setting_key_to_store)
             THEN ReconstructLoop(Tail(items), reconstructed,
                      Set(settings, Val(setting_key_to_store), value))
             ELSE IF key = "description"
             THEN ReconstructLoop(Tail(items), Set(reconstructed, key, value), settings)
             ELSE IF ~StartsWith(key, "chroma:")
             THEN ReconstructLoop(Tail(items), Set(reconstructed, key, value), settings)
             ELSE ReconstructLoop(Tail(items), reconstructed, settings)

\* _reconstruct_metadata(metadata), metadata None or a dict: the items of the result
_reconstruct_metadata(metadata) ==
    IF IsPyNone(metadata) \/ metadata.dict = <<>> THEN <<>>
    ELSE LET done          == ReconstructLoop(metadata.dict, <<>>, <<>>)
             reconstructed == done[1]
             settings      == done[2]
         IN  IF settings # <<>>
             THEN Set(reconstructed, "settings", PyDict(settings))
             ELSE reconstructed

-----------------------------------------------------------------------------
(* _create_collection_impl *)

\* the calls of the try body, in source order
\* CreateSteps as it would be with get_or_create=True
CreateStepsGetOrCreate(collection_name, default_settings) ==
    << Call("validate_collection_name", collection_name, 0),
       Call("get_chroma_client", "", 0),
       Call("get_embedding_function", "", 0),
       Call("get_collection_settings", "", 0),
       CallWith("create_collection", collection_name, 0,
                << <<"metadata", PyDict(FlattenSettings(default_settings, <<>>))>>,
                   <<"embedding_function", EmbeddingFunction>>,
                   <<"get_or_create", PyBool(TRUE)>> >>),
       Call("count", "", 0) >>

CreateSteps(collection_name, default_settings) ==
    << Call("validate_collection_name", collection_name, 0),
       Call("get_chroma_client", "", 0),
       Call("get_embedding_function", "", 0),
       Call("get_collection_settings", "", 0),
       CallWith("create_collection", collection_name, 0,
                << <<"metadata", PyDict(FlattenSettings(default_settings, <<>>))>>,
                   <<"embedding_function", EmbeddingFunction>>,
                   <<"get_or_create", PyBool(FALSE)>> >>),
       Call("count", "", 0) >>

\* CreateExcept as it would be with the duplicate looked for in str(e).lower(),
\* the way the other tools look for their patterns
CreateExceptLowered(collection_name, e) ==
    IF IsInstance(e, "ValidationError")
    THEN McpError(INVALID_PARAMS, "Validation Error: " \o e.msg)
    ELSE IF IsInstance(e, "ValueError")
    THEN IF Contains("collection " \o collection_name \o " already exists.", Lower(e.msg))
         THEN McpError(INVALID_PARAMS,
                  "Tool Error: Collection '" \o collection_name \o "' already exists.")
         ELSE McpError(INVALID_PARAMS,
                  "Tool Error: Invalid parameter during collection creation. Details: "
                      \o e.msg)
    ELSE McpError(INTERNAL_ERROR,
             "Tool Error: An unexpected error occurred while creating collection '"
                 \o collection_name \o "'. Details: " \o e.msg)

\* the except chain: the McpError raised for the exception e
CreateExcept(collection_name, e) ==
    IF IsInstance(e, "ValidationError")
    THEN McpError(INVALID_PARAMS, "Validation Error: " \o e.msg)
    ELSE IF IsInstance(e, "ValueError")
    THEN IF Contains("Collection " \o collection_name \o " already exists.", e.msg)
         THEN McpError(INVALID_PARAMS,
                  "Tool Error: Collection '" \o collection_name \o "' already exists.")
         ELSE McpError(INVALID_PARAMS,
                  "Tool Error: Invalid parameter during collection creation. Details: "
                      \o e.msg)
    ELSE IF IsInstance(e, "InvalidDimensionException")
    THEN McpError(INTERNAL_ERROR,
             "ChromaDB Error: Invalid dimension configuration. " \o e.msg)
    ELSE McpError(INTERNAL_ERROR,
             "Tool Error: An unexpected error occurred while creating collection '"
                 \o collection_name \o "'. Details: " \o e.msg)

\* r: what get_collection_settings, the created collection and count return
CreateOutcome(collection_name, f, r) ==
    IF f.at = 0
    THEN Returned("", [shape    |-> "collection",
                       name     |-> collection_name,
                       id       |-> IdOf(collection_name),
                       metadata |-> PyDict(_reconstruct_metadata(r.metadata)),
                       count    |-> r.count])
    ELSE Raised(CreateExcept(collection_name, f.exc))

CreateCollection(collection_name, f, r) ==
    LET steps == CreateSteps(collection_name, r.settings) IN
    /\ Feasible(collections, Succeeded(steps, f), collection_name)
    /\ collections' = After(collections, Succeeded(steps, f), collection_name)
    /\ last' = RecordWith("create", Input(collection_name, "", None, None, None, ""),
                          steps, f, CreateOutcome(collection_name, f, r), r)
    /\ ToolFrame

-----------------------------------------------------------------------------
(* _list_collections_impl *)

ListSteps ==
    << Call("get_chroma_client", "", 0),
       Call("list_collections", "", 0) >>

\* [name for name in names if name_contains.lower() in name.lower()]
RECURSIVE NamesContaining(_, _)
NamesContaining(names, name_contains) ==
    IF names = <<>> THEN <<>>
    ELSE (IF Contains(Lower(name_contains), Lower(Head(names)))
          THEN <<Head(names)>> ELSE <<>>)
             \o NamesContaining(Tail(names), name_contains)

\* filtered_names
FilteredNames(all_collection_names, name_contains) ==
    IF Truthy(name_contains)
    THEN NamesContaining(all_collection_names, Val(name_contains))
    ELSE all_collection_names

\* PaginatedNames as it would be with the end index among the names of the page
PaginatedNamesEndIncluded(filtered_names, limit, offset) ==
    LET start_index == IF ~IsNone(offset) THEN Val(offset) ELSE 0
        end_index   == IF ~IsNone(limit) THEN Some(start_index + Val(limit) + 1) ELSE None
    IN  Slice(filtered_names, start_index, end_index)

\* PaginatedNames as it would be with end_index = limit
PaginatedNamesEndIsLimit(filtered_names, limit, offset) ==
    LET start_index == IF ~IsNone(offset) THEN Val(offset) ELSE 0
    IN  Slice(filtered_names, start_index, limit)

\* paginated_names
PaginatedNames(filtered_names, limit, offset) ==
    LET start0      == IF ~IsNone(offset) THEN Val(offset) ELSE 0
        end_index   == IF ~IsNone(limit) THEN Some(start0 + Val(limit)) ELSE None
        start_index == IF start0 < 0 THEN 0 ELSE start0
    IN  Slice(filtered_names, start_index, end_index)

\* result_data
ListResult(all_collection_names, limit, offset, name_contains) ==
    LET filtered_names == FilteredNames(all_collection_names, name_contains) IN
    [shape            |-> "list",
     collection_names |-> PaginatedNames(filtered_names, limit, offset),
     total_count      |-> Len(filtered_names),
     limit            |-> limit,
     offset           |-> offset]

ListExcept(e) ==
    McpError(INTERNAL_ERROR, "Tool Error: Error listing collections. Details: " \o e.msg)

ListOutcome(limit, offset, name_contains, f) ==
    IF f.at = 0
    THEN Returned("", ListResult(collections, limit, offset, name_contains))
    ELSE Raised(ListExcept(f.exc))

ListCollections(limit, offset, name_contains, f) ==
    /\ Feasible(collections, Succeeded(ListSteps, f), "")
    /\ collections' = After(collections, Succeeded(ListSteps, f), "")
    /\ last' = Record("list", Input("", "", limit, offset, name_contains, ""),
                      ListSteps, f, ListOutcome(limit, offset, name_contains, f))
    /\ ToolFrame
-----------------------------------------------------------------------------
(* _get_collection_impl *)

GetSteps(collection_name) ==
    << Call("validate_collection_name", collection_name, 0),
       Call("get_chroma_client", "", 0),
       Call("get_embedding_function", "", 0),
       Call("get_collection", collection_name, 0),
       Call("count", "", 0),
       Call("peek", "", 5) >>

GetExcept(collection_name, e) ==
    IF IsInstance(e, "ValueError")
    THEN LET error_str == Lower(e.msg)
             not_found ==
                 \/ Contains("collection " \o collection_name \o " does not exist.", error_str)
                 \/ Contains("collection " \o collection_name \o " not found", error_str)
         IN  IF not_found
             THEN McpError(INVALID_PARAMS,
                      "Tool Error: Collection '" \o collection_name \o "' not found.")
             ELSE McpError(INVALID_PARAMS,
                      "Tool Error: Invalid parameter getting collection. Details: " \o e.msg)
    ELSE McpError(INTERNAL_ERROR,
             "Tool Error: An unexpected error occurred while getting collection '"
                 \o collection_name \o "'. Details: " \o e.msg)

\* the inner try around collection.peek(limit=5) keeps a peek failure out of
\* the outer except chain
\* Python's truth value of None or a dict
TruthyDict(v) == ~IsPyNone(v) /\ v.dict # <<>>

\* peek_results after the inner try: the peek result without its embeddings,
\* or the error entry when peek raised
SampleEntries(peek_results, peek_err) ==
    IF peek_err # NoExc
    THEN PyDict(<< <<"error", PyStr("Could not peek: " \o peek_err.msg)>> >>)
    ELSE IF TruthyDict(peek_results) /\ "embeddings" \in Keys(peek_results.dict)
    THEN PyDict(Del(peek_results.dict, "embeddings"))
    ELSE peek_results

\* result_data
GetResult(collection_name, r, peek_err) ==
    [shape          |-> "info",
     name           |-> collection_name,
     id             |-> IdOf(collection_name),
     metadata       |-> PyDict(_reconstruct_metadata(r.metadata)),
     count          |-> r.count,
     sample_entries |-> SampleEntries(r.peek, peek_err)]

\* GetOutcome as it would be without the inner try around collection.peek
GetOutcomePeekUnguarded(collection_name, f, r) ==
    LET result_data == GetResult(collection_name, r, NoExc)
    IN  IF f.at # 0
        THEN Raised(GetExcept(collection_name, f.exc))
        ELSE IF JsonSerializable(result_data.sample_entries)
        THEN Returned("", result_data)
        ELSE Raised(GetExcept(collection_name, NotSerializable))

\* r: what the collection, count and peek return
GetOutcome(collection_name, f, r) ==
    LET steps       == GetSteps(collection_name)
        peeked      == f.at = 0 \/ steps[f.at].fn = "peek"
        peek_err    == IF f.at = 0 THEN NoExc ELSE f.exc
        result_data == GetResult(collection_name, r, peek_err)
    IN  IF ~peeked
        THEN Raised(GetExcept(collection_name, f.exc))
        ELSE IF JsonSerializable(result_data.sample_entries)
        THEN Returned("", result_data)
        ELSE Raised(GetExcept(collection_name, NotSerializable))

GetCollection(collection_name, f, r) ==
    LET steps == GetSteps(collection_name) IN
    /\ Feasible(collections, Succeeded(steps, f), collection_name)
    /\ collections' = After(collections, Succeeded(steps, f), collection_name)
    /\ last' = RecordWith("get", Input(collection_name, "", None, None, None, ""),
                          steps, f, GetOutcome(collection_name, f, r), r)
    /\ ToolFrame

-----------------------------------------------------------------------------
(* _rename_collection_impl *)

\* RenameSteps as it would be with the new name validated after the rename
RenameStepsValidateLate(original_name, new_name) ==
    << Call("validate_collection_name", original_name, 0),
       Call("get_chroma_client", "", 0),
       Call("get_collection", original_name, 0),
       Call("modify", new_name, 0),
       Call("validate_collection_name", new_name, 0) >>

RenameSteps(original_name, new_name) ==
    << Call("validate_collection_name", original_name, 0),
       Call("validate_collection_name", new_name, 0),
       Call("get_chroma_client", "", 0),
       Call("get_collection", original_name, 0),
       Call("modify", new_name, 0) >>

\* RenameExcept as it would be with the unexpected-error message naming the new name
RenameExceptNamesNew(original_name, new_name, e) ==
    IF IsInstance(e, "ValidationError")
    THEN McpError(INVALID_PARAMS, "Validation Error: " \o e.msg)
    ELSE IF IsInstance(e, "ValueError")
    THEN McpError(INVALID_PARAMS,
             "Tool Error: Invalid parameter during rename. Details: " \o e.msg)
    ELSE McpError(INTERNAL_ERROR,
             "Tool Error: An unexpected error occurred renaming collection '"
                 \o new_name \o "'. Details: " \o e.msg)

RenameExcept(original_name, new_name, e) ==
    IF IsInstance(e, "ValidationError")
    THEN McpError(INVALID_PARAMS, "Validation Error: " \o e.msg)
    ELSE IF IsInstance(e, "ValueError")
    THEN LET error_str == Lower(e.msg)
             original_not_found ==
                 \/ Contains("collection " \o original_name \o " does not exist.", error_str)
                 \/ Contains("collection " \o original_name \o " not found", error_str)
             new_name_exists ==
                 Contains("collection " \o new_name \o " already exists.", error_str)
         IN  IF original_not_found
             THEN McpError(INVALID_PARAMS,
                      "Tool Error: Collection '" \o original_name \o "' not found.")
             ELSE IF new_name_exists
             THEN McpError(INVALID_PARAMS,
                      "Tool Error: Collection name '" \o new_name \o "' already exists.")
             ELSE McpError(INVALID_PARAMS,
                      "Tool Error: Invalid parameter during rename. Details: " \o e.msg)
    ELSE McpError(INTERNAL_ERROR,
             "Tool Error: An unexpected error occurred renaming collection '"
                 \o original_name \o "'. Details: " \o e.msg)

RenameOutcome(original_name, new_name, f) ==
    IF f.at = 0
    THEN Returned("Collection '" \o original_name \o "' successfully renamed to '"
                      \o new_name \o "'.", NoData)
    ELSE Raised(RenameExcept(original_name, new_name, f.exc))

RenameCollection(original_name, new_name, f) ==
    LET steps == RenameSteps(original_name, new_name) IN
    /\ Feasible(collections, Succeeded(steps, f), original_name)
    /\ collections' = After(collections, Succeeded(steps, f), original_name)
    /\ last' = Record("rename", Input(original_name, new_name, None, None, None, ""),
                      steps, f, RenameOutcome(original_name, new_name, f))
    /\ ToolFrame

-----------------------------------------------------------------------------
(* _delete_collection_impl *)

\* DeleteSteps as it would be with the name validated after the deletion
DeleteStepsValidateLast(collection_name) ==
    << Call("get_chroma_client", "", 0),
       Call("delete_collection", collection_name, 0),
       Call("validate_collection_name", collection_name, 0) >>

\* DeleteSteps as it would be with the collection looked up before it is deleted
DeleteStepsLookupFirst(collection_name) ==
    << Call("validate_collection_name", collection_name, 0),
       Call("get_chroma_client", "", 0),
       Call("get_collection", collection_name, 0),
       Call("delete_collection", collection_name, 0) >>

DeleteSteps(collection_name) ==
    << Call("validate_collection_name", collection_name, 0),
       Call("get_chroma_client", "", 0),
       Call("delete_collection", collection_name, 0) >>

DeleteExcept(collection_name, e) ==
    IF IsInstance(e, "ValueError")
    THEN LET error_str == Lower(e.msg)
             not_found ==
                 \/ Contains("collection " \o collection_name \o " does not exist.", error_str)
                 \/ Contains("collection named " \o collection_name \o " does not exist",
                             error_str)
         IN  IF not_found
             THEN McpError(INVALID_PARAMS,
                      "Tool Error: Collection '" \o collection_name \o "' not found.")
             ELSE McpError(INVALID_PARAMS,
                      "Tool Error: Invalid parameter deleting collection. Details: " \o e.msg)
    ELSE McpError(INTERNAL_ERROR,
             "Tool Error: An unexpected error occurred deleting collection '"
                 \o collection_name \o "'. Details: " \o e.msg)

\* DeleteOutcome as it would be if deleting a collection that does not exist
\* were confirmed too
DeleteOutcomeIdempotent(collection_name, f) ==
    IF f.at = 0 \/ f.exc = Exc("ValueError", NotExistMsg(collection_name), 0)
    THEN Returned("Collection '" \o collection_name \o "' deleted successfully.", NoData)
    ELSE Raised(DeleteExcept(collection_name, f.exc))

DeleteOutcome(collection_name, f) ==
    IF f.at = 0
    THEN Returned("Collection '" \o collection_name \o "' deleted successfully.", NoData)
    ELSE Raised(DeleteExcept(collection_name, f.exc))

DeleteCollection(collection_name, f) ==
    LET steps == DeleteSteps(collection_name) IN
    /\ Feasible(collections, Succeeded(steps, f), collection_name)
    /\ collections' = After(collections, Succeeded(steps, f), collection_name)
    /\ last' = Record("delete", Input(collection_name, "", None, None, None, ""),
                      steps, f, DeleteOutcome(collection_name, f))
    /\ ToolFrame

-----------------------------------------------------------------------------
(* _peek_collection_impl *)

\* PeekSteps as it would be if the tool dropped the collection it has read
PeekStepsDeletes(collection_name, limit) ==
    << Call("validate_collection_name", collection_name, 0),
       Call("get_chroma_client", "", 0),
       Call("get_collection", collection_name, 0),
       Call("peek", "", IF ~IsNone(limit) THEN Val(limit) ELSE 10),
       Call("delete_collection", collection_name, 0) >>

\* PeekSteps as it would be with the sample size of the get tool as the default
PeekStepsDefaultFive(collection_name, limit) ==
    << Call("validate_collection_name", collection_name, 0),
       Call("get_chroma_client", "", 0),
       Call("get_collection", collection_name, 0),
       Call("peek", "", IF ~IsNone(limit) THEN Val(limit) ELSE 5) >>

PeekSteps(collection_name, limit) ==
    << Call("validate_collection_name", collection_name, 0),
       Call("get_chroma_client", "", 0),
       Call("get_collection", collection_name, 0),
       Call("peek", "", IF ~IsNone(limit) THEN Val(limit) ELSE 10) >>

PeekExcept(collection_name, e) ==
    IF IsInstance(e, "ValueError")
    THEN LET error_str == Lower(e.msg)
             not_found ==
                 \/ Contains("collection " \o collection_name \o " does not exist.", error_str)
                 \/ Contains("collection " \o collection_name \o " not found", error_str)
         IN  IF not_found
             THEN McpError(INVALID_PARAMS,
                      "Tool Error: Collection '" \o collection_name \o "' not found.")
             ELSE McpError(INVALID_PARAMS,
                      "Tool Error: Problem accessing collection '" \o collection_name
                          \o "'. Details: " \o e.msg)
    ELSE McpError(INTERNAL_ERROR,
             "Tool Error: An unexpected error occurred peeking collection '"
                 \o collection_name \o "'. Details: " \o e.msg)

\* the elements a for loop visits in a list or an array
Elements(v) == IF HasToList(v) THEN v.ndarray ELSE v.list

\* one element of the embeddings or distances: a list has its arrays put in
\* list form, an array is put in list form, anything else is kept
ConvertItem(item) ==
    IF IsPyList(item)
    THEN PyList([i \in 1..Len(item.list) |->
                     IF HasToList(item.list[i]) THEN ToList(item.list[i]) ELSE item.list[i]])
    ELSE IF HasToList(item) THEN ToList(item)
    ELSE item

\* new_embeddings / new_distances
ConvertList(v) ==
    PyList([i \in 1..Len(Elements(v)) |-> ConvertItem(Elements(v)[i])])

\* the conversion of one key of processed_peek, when present and not None
ConvertKey(items, key) ==
    IF key \in Keys(items) /\ ~IsPyNone(Get(items, key))
    THEN Set(items, key, ConvertList(Get(items, key)))
    ELSE items

\* PeekObjects as it would be without the copy: processed_peek is the
\* client's dict itself, and the assignments to its keys change that dict
PeekObjectsInPlace(peek_results) ==
    LET items == IF ~IsPyNone(peek_results) THEN peek_results.dict ELSE <<>>
        processed_peek == PyDict(ConvertKey(ConvertKey(items, "embeddings"), "distances"))
    IN  [peek_results   |-> IF ~IsPyNone(peek_results) THEN processed_peek ELSE peek_results,
         processed_peek |-> processed_peek]

\* the two objects after the conversion: the client's peek_results, and
\* processed_peek, its shallow copy, whose keys "embeddings" and "distances"
\* are assigned new lists
PeekObjects(peek_results) ==
    LET copy == IF ~IsPyNone(peek_results) THEN peek_results.dict ELSE <<>>
    IN  [peek_results   |-> peek_results,
         processed_peek |-> PyDict(ConvertKey(ConvertKey(copy, "embeddings"), "distances"))]

\* processed_peek
ProcessedPeek(peek_results) == PeekObjects(peek_results).processed_peek

\* r: what peek returns
PeekOutcome(collection_name, f, r) ==
    IF f.at # 0
    THEN Raised(PeekExcept(collection_name, f.exc))
    ELSE IF JsonSerializable(ProcessedPeek(r.peek))
    THEN Returned("", [shape |-> "peek", entries |-> ProcessedPeek(r.peek)])
    ELSE Raised(PeekExcept(collection_name, NotSerializable))

PeekCollection(collection_name, limit, f, r) ==
    LET steps == PeekSteps(collection_name, limit) IN
    /\ Feasible(collections, Succeeded(steps, f), collection_name)
    /\ collections' = After(collections, Succeeded(steps, f), collection_name)
    /\ last' = RecordWith("peek", Input(collection_name, "", limit, None, None, ""),
                          steps, f, PeekOutcome(collection_name, f, r), r)
    /\ ToolFrame
-----------------------------------------------------------------------------
(* _create_collection_with_metadata_impl *)

\* '[' nested deeper than the interpreter's recursion limit allows json.loads
\* to descend (the limit of the model is below the ten levels of this text)
DeeplyNested == "[[[[[[[[[["

\* metadata strings a request carries: a JSON object, a JSON array, not JSON,
\* and text nested too deeply to decode
MetadataStrings == {"{\"description\": \"d\"}", "[1]", "{bad", DeeplyNested}

\* json.loads: whether the text decodes, whether to a dict, and the class and
\* str() of the exception otherwise
JsonLoads(metadata_str) ==
    CASE metadata_str = "{\"description\": \"d\"}" ->
             [decodes |-> TRUE, isDict |-> TRUE, cls |-> "", error |-> "",
              value |-> PyDict(<< <<"description", PyStr("d")>> >>)]
      [] metadata_str = "[1]" ->
             [decodes |-> TRUE, isDict |-> FALSE, cls |-> "", error |-> "",
              value |-> PyList(<<PyNum(1)>>)]
      [] metadata_str = DeeplyNested ->
             [decodes |-> FALSE, isDict |-> FALSE, value |-> PyNone,
              cls |-> "RecursionError",
              error |-> "maximum recursion depth exceeded while decoding "
                            \o "a JSON array from a unicode string"]
      [] OTHER ->
             [decodes |-> FALSE, isDict |-> FALSE, value |-> PyNone,
              cls |-> "JSONDecodeError",
              error |-> "Expecting property name enclosed in double quotes: "
                            \o "line 1 column 2 (char 1)"]

\* the inner try: the exception that leaves it, NoExc when metadata_dict is a
\* dict. JSONDecodeError and the ValueError of the isinstance check are caught
\* and replaced; any other exception of json.loads passes to the outer try
MetadataParseError(metadata_str) ==
    LET parsed == JsonLoads(metadata_str) IN
    IF ~parsed.decodes
    THEN IF parsed.cls = "JSONDecodeError"
         THEN McpError(INVALID_PARAMS,
                  "Invalid JSON format for metadata field: " \o parsed.error)
         ELSE Exc(parsed.cls, parsed.error, 0)
    ELSE IF ~parsed.isDict
    THEN McpError(INVALID_PARAMS,
             "Metadata string must decode to a JSON object (dictionary).")
    ELSE NoExc

\* the calls of the outer try body: none when the inner try raised
CreateWithMetadataSteps(collection_name, metadata_str) ==
    IF MetadataParseError(metadata_str) # NoExc THEN <<>>
    ELSE << Call("validate_collection_name", collection_name, 0),
            Call("get_embedding_function", "", 0),
            Call("get_chroma_client", "", 0),
            CallWith("create_collection", collection_name, 0,
                     << <<"metadata", JsonLoads(metadata_str).value>>,
                        <<"embedding_function", EmbeddingFunction>>,
                        <<"get_or_create", PyBool(FALSE)>> >>),
            Call("count", "", 0) >>

CreateWithMetadataExcept(collection_name, e) ==
    IF IsInstance(e, "ValidationError")
    THEN McpError(INVALID_PARAMS, "Validation Error: " \o e.msg)
    ELSE IF IsInstance(e, "McpError")
    THEN e
    ELSE IF Contains("Collection " \o collection_name \o " already exists.", e.msg)
    THEN McpError(INVALID_PARAMS,
             "Tool Error: Collection '" \o collection_name \o "' already exists.")
    ELSE McpError(INTERNAL_ERROR,
             "Tool Error: An unexpected error occurred while creating collection '"
                 \o collection_name \o "'. Details: " \o e.msg)

\* r: what the created collection and count return
CreateWithMetadataOutcome(collection_name, metadata_str, f, r) ==
    IF MetadataParseError(metadata_str) # NoExc
    THEN Raised(CreateWithMetadataExcept(collection_name, MetadataParseError(metadata_str)))
    ELSE IF f.at = 0
    THEN Returned("", [shape    |-> "created",
                       name     |-> collection_name,
                       id       |-> IdOf(collection_name),
                       metadata |-> PyDict(_reconstruct_metadata(r.metadata)),
                       count    |-> r.count,
                       status   |-> "success"])
    ELSE Raised(CreateWithMetadataExcept(collection_name, f.exc))

CreateCollectionWithMetadata(collection_name, metadata_str, f, r) ==
    LET steps == CreateWithMetadataSteps(collection_name, metadata_str) IN
    /\ Feasible(collections, Succeeded(steps, f), collection_name)
    /\ collections' = After(collections, Succeeded(steps, f), collection_name)
    /\ last' = RecordWith("create_with_metadata",
                          Input(collection_name, "", None, None, None, metadata_str),
                          steps, f,
                          CreateWithMetadataOutcome(collection_name, metadata_str, f, r), r)
    /\ ToolFrame

-----------------------------------------------------------------------------
(* The system: tool calls one after another, on what the client holds *)

OptionalInts(lo) == {None} \cup {Some(n) : n \in lo..MaxPage}
OptionalFragments == {None} \cup {Some(s) : s \in Fragments}

Init ==
    /\ collections = <<>>
    /\ validationErrorIsValueError \in BOOLEAN
    /\ last = NoCall
    /\ main_logger_instance = None
    /\ global_client_config = None
    /\ fallbackHandlers = 0
    /\ rootHasHandlers = FALSE
    /\ configWasSet = FALSE
    /\ loggerWasSet = FALSE
    /\ utilLast = NoUtilCall
    /\ metaIn = <<>>
    /\ metaOut = <<>>
    /\ metaStep = "none"
    /\ loop = NoLoop

\* the tool call has returned or raised: its result went to the caller and
\* its objects are discarded; what the client holds stays
Respond ==
    /\ ~Idle
    /\ last' = NoCall
    /\ UNCHANGED <<collections, validationErrorIsValueError, utilVars, metaVars, loop>>

\* while no call is in progress, one call of one tool with the fault (if any)
\* it meets; otherwise the end of the call in progress
Next ==
    \/ \E n \in Names, s \in SettingsDicts :
         Idle /\ \E f \in Faults(CreateSteps(n, s),
                         {AlreadyExistsMsg(n), GenericMsg, InvalidNameMsg}) :
                  \E r \in SeenBy(CreateSteps(n, s), f, CreateResponses(s)) :
                      CreateCollection(n, f, r)
    \/ \E n \in Names, m \in MetadataStrings :
         Idle /\ \E f \in Faults(CreateWithMetadataSteps(n, m),
                         {AlreadyExistsMsg(n), GenericMsg, InvalidNameMsg}) :
                  \E r \in SeenBy(CreateWithMetadataSteps(n, m), f, CreateWithMetadataResponses) :
                      CreateCollectionWithMetadata(n, m, f, r)
    \/ \E limit \in OptionalInts(0), offset \in OptionalInts(0),
          name_contains \in OptionalFragments :
         Idle /\ \E f \in Faults(ListSteps, {GenericMsg}) :
             ListCollections(limit, offset, name_contains, f)
    \/ \E n \in Names :
         Idle /\ \E f \in Faults(GetSteps(n), {NotExistMsg(n), GenericMsg, InvalidNameMsg}) :
                  \E r \in SeenBy(GetSteps(n), f, GetResponses) :
                      GetCollection(n, f, r)
    \/ \E o \in Names, w \in Names :
         Idle /\ \E f \in Faults(RenameSteps(o, w),
                         {NotExistMsg(o), AlreadyExistsMsg(w), GenericMsg, InvalidNameMsg}) :
             RenameCollection(o, w, f)
    \/ \E n \in Names :
         Idle /\ \E f \in Faults(DeleteSteps(n), {NotExistMsg(n), GenericMsg, InvalidNameMsg}) :
             DeleteCollection(n, f)
    \/ \E n \in Names, limit \in OptionalInts(1) :
         Idle /\ \E f \in Faults(PeekSteps(n, limit),
                         {NotExistMsg(n), GenericMsg, InvalidNameMsg}) :
                  \E r \in SeenBy(PeekSteps(n, limit), f, PeekResponses) :
                      PeekCollection(n, limit, f, r)
    \/ Respond

Spec == Init /\ [][Next]_vars

-----------------------------------------------------------------------------
(* The functions of utils, called in any order by the server and the tools *)

\* the loggers set_main_logger is given, and the configurations
MainLoggers == {"chromamcp", "root"}
Configs == {"http", "persistent"}
\* the names get_logger is given
LoggerNames == {"", "tools.collection", "unconfigured"}

OptionalOf(S) == {None} \cup {Some(v) : v \in S}

UtilsInit ==
    /\ collections = <<>>
    /\ validationErrorIsValueError \in BOOLEAN
    /\ last = NoCall
    /\ main_logger_instance = None
    /\ global_client_config = None
    /\ fallbackHandlers = 0
    /\ rootHasHandlers \in BOOLEAN
    /\ configWasSet = FALSE
    /\ loggerWasSet = FALSE
    /\ utilLast = NoUtilCall
    /\ metaIn = <<>>
    /\ metaOut = <<>>
    /\ metaStep = "none"
    /\ loop = NoLoop

UtilsNext ==
    \/ \E logger \in OptionalOf(MainLoggers) : set_main_logger(logger)
    \/ \E config \in OptionalOf(Configs) : set_server_config(config)
    \/ \E name \in OptionalOf(LoggerNames) : get_logger(name)
    \/ get_server_config

UtilsSpec == UtilsInit /\ [][UtilsNext]_vars

-----------------------------------------------------------------------------
(* The metadata functions, applied to the dicts of a bounded set *)

\* the largest number of keys of a dict given to the metadata functions
MaxKeys == 2

\* keys of settings: with and without '_', two that differ only in ':' / '_'
SettingKeys == {"hnsw:space", "hnsw:construction_ef", "hnsw:M", "a:b", "a_b"}
SettingValues == {PyStr("cosine"), PyNum(100)}

\* the dicts of at most n items with keys in K and values in V, as their
\* items in every insertion order
RECURSIVE DictsOf(_, _, _)
DictsOf(K, V, n) ==
    IF n = 0 THEN {<<>>}
    ELSE LET smaller == DictsOf(K, V, n - 1)
         IN  smaller \cup
                 {Append(d, <<k, v>>) : d \in {x \in smaller : Len(x) = n - 1},
                                        k \in K, v \in V}

\* keys of a collection's metadata: flattened settings, raw hnsw keys, the
\* description, custom keys, keys chroma keeps for itself
MetadataKeys == {"chroma:setting:hnsw_space", "chroma:setting:", "hnsw:M",
                 "description", "owner", "settings", "chroma:version"}

\* metaStep tells what metaIn is: "settings" the default settings of a create
\* call, "metadata" the metadata of a collection, "no metadata" the metadata
\* None of a collection (metaIn is then empty)
MetadataInit ==
    /\ collections = <<>>
    /\ validationErrorIsValueError = FALSE
    /\ last = NoCall
    /\ main_logger_instance = None
    /\ global_client_config = None
    /\ fallbackHandlers = 0
    /\ rootHasHandlers = FALSE
    /\ configWasSet = FALSE
    /\ loggerWasSet = FALSE
    /\ utilLast = NoUtilCall
    /\ metaOut = <<>>
    /\ \/ /\ metaStep = "settings"
          /\ metaIn \in {d \in DictsOf(SettingKeys, SettingValues, MaxKeys) :
                             Cardinality(Keys(d)) = Len(d)}
       \/ /\ metaStep = "metadata"
          /\ metaIn \in {d \in DictsOf(MetadataKeys, SettingValues, MaxKeys) :
                             Cardinality(Keys(d)) = Len(d)}
       \/ /\ metaStep = "no metadata"
          /\ metaIn = <<>>
    /\ loop = NoLoop

\* final_metadata of the create tool for the default settings metaIn
Flatten ==
    /\ metaStep = "settings"
    /\ metaOut' = FlattenSettings(metaIn, <<>>)
    /\ metaStep' = "flattened"
    /\ UNCHANGED <<metaIn, toolVars, utilVars, loop>>

\* _reconstruct_metadata of the flattened settings
Reconstruct ==
    /\ metaStep = "flattened"
    /\ metaOut' = _reconstruct_metadata(PyDict(metaOut))
    /\ metaStep' = "reconstructed"
    /\ UNCHANGED <<metaIn, toolVars, utilVars, loop>>

\* _reconstruct_metadata(collection.metadata)
ReconstructStored ==
    /\ metaStep \in {"metadata", "no metadata"}
    /\ metaOut' = _reconstruct_metadata(IF metaStep = "no metadata" THEN PyNone
                                        ELSE PyDict(metaIn))
    /\ metaStep' = IF metaStep = "no metadata" THEN "rebuilt from None" ELSE "rebuilt"
    /\ UNCHANGED <<metaIn, toolVars, utilVars, loop>>

MetadataNext == Flatten \/ Reconstruct \/ ReconstructStored

MetadataSpec == MetadataInit /\ [][MetadataNext]_vars
-----------------------------------------------------------------------------
(* The tool calls as tasks of one event loop *)

\* the outcome of the tool call of record rec, from its input and from what
\* its calls answered: the exception one of them raised (rec.fault), what the
\* others returned (rec.seen) and, for the list tool, the names listing that
\* list_collections returned
OutcomeFrom(rec, listing) ==
    LET i == rec.input IN
    CASE rec.tool = "create" ->
             CreateOutcome(i.collection_name, rec.fault, rec.seen)
      [] rec.tool = "create_with_metadata" ->
             CreateWithMetadataOutcome(i.collection_name, i.metadata, rec.fault, rec.seen)
      [] rec.tool = "list" ->
             IF rec.fault.at = 0
             THEN Returned("", ListResult(listing, i.limit, i.offset, i.name_contains))
             ELSE Raised(ListExcept(rec.fault.exc))
      [] rec.tool = "get" ->
             GetOutcome(i.collection_name, rec.fault, rec.seen)
      [] rec.tool = "rename" ->
             RenameOutcome(i.collection_name, i.new_name, rec.fault)
      [] rec.tool = "delete" ->
             DeleteOutcome(i.collection_name, rec.fault)
      [] rec.tool = "peek" ->
             PeekOutcome(i.collection_name, rec.fault, rec.seen)

\* the most tasks scheduled on the loop at once
MaxTasks == 2

\* the names the scheduled calls carry
TaskNames == {"ab", "cd"}

\* the settings get_collection_settings() returns to the tasks
TaskSettings == << <<"hnsw:space", PyStr("cosine")>> >>

\* a scheduled tool call: pc is the call of its try body it is to make next
Task(tool, input) ==
    [tool |-> tool, input |-> input, pc |-> 1, done |-> FALSE,
     outcome |-> Returned("", NoData)]

\* the tool calls that are scheduled
Invocations ==
    {Task("create", Input(n, "", None, None, None, "")) : n \in TaskNames}
        \cup {Task("get", Input(n, "", None, None, None, "")) : n \in TaskNames}
        \cup {Task("rename", Input(o, w, None, None, None, "")) : o \in TaskNames, w \in TaskNames}
        \cup {Task("delete", Input(n, "", None, None, None, "")) : n \in TaskNames}

\* the calls of the try body of a task, in source order
TaskSteps(task) ==
    CASE task.tool = "create" -> CreateSteps(task.input.collection_name, TaskSettings)
      [] task.tool = "get"    -> GetSteps(task.input.collection_name)
      [] task.tool = "rename" -> RenameSteps(task.input.collection_name, task.input.new_name)
      [] task.tool = "delete" -> DeleteSteps(task.input.collection_name)

\* Awaits as it would be if every call of the try body were awaited
AwaitsEveryCall(tool) == 1..6

\* the calls of the try body at which the coroutine of a tool is suspended
\* (an await): the implementations are async def without any await
Awaits(tool) == {}

\* the exception of the client for a call it cannot carry out
ClientRaises(c) ==
    IF c.fn \in {"create_collection", "modify"}
    THEN Exc("ValueError", AlreadyExistsMsg(c.name), 0)
    ELSE Exc("ValueError", NotExistMsg(c.name), 0)

\* the record of the task's call, raised at its call pc or (at = 0) returned
TaskRecord(task, f) ==
    RecordWith(task.tool, task.input, TaskSteps(task), f, Returned("", NoData),
               Response(TaskSettings, PyNone, 0, PyNone))

\* the task makes its next call on the collections cs: the collections and
\* the task afterwards
OneCall(cs, task) ==
    LET steps == TaskSteps(task)
        c     == steps[task.pc]
        end(f, listing) ==
            [task EXCEPT !.done = TRUE,
                         !.outcome = OutcomeFrom(TaskRecord(task, f), listing)]
    IN  IF ~CanSucceed(cs, c)
        THEN [cs |-> cs, task |-> end(Fault(task.pc, ClientRaises(c)), cs)]
        ELSE LET after == Effect(cs, c, task.input.collection_name)
             IN  [cs   |-> after,
                  task |-> IF task.pc = Len(steps)
                           THEN end(NoFault, after)
                           ELSE [task EXCEPT !.pc = @ + 1]]

\* the loop runs task t up to its next call: a task that is suspended or has
\* not started is resumed only when no task is running; a task gets its
\* logger on entry
Step(t) ==
    /\ loop.running \in {0, t}
    /\ ~loop.tasks[t].done
    /\ LET task == loop.tasks[t]
           c    == TaskSteps(task)[task.pc]
           r    == OneCall(collections, task)
       IN  /\ collections' = r.cs
           /\ loop' = [loop EXCEPT
                         !.tasks[t] = r.task,
                         !.log      = IF c.fn \in ClientMethods
                                      THEN Append(@, <<t, c.fn>>) ELSE @,
                         !.running  = IF r.task.done \/ task.pc \in Awaits(task.tool)
                                      THEN 0 ELSE t]
    /\ fallbackHandlers' = IF loop.tasks[t].pc = 1 THEN HandlersAfterGetLogger
                           ELSE fallbackHandlers
    /\ UNCHANGED <<validationErrorIsValueError, last, main_logger_instance,
                   global_client_config, rootHasHandlers, configWasSet, loggerWasSet, utilLast,
                   metaVars>>

\* the collections the client holds when the tasks are scheduled
LoopCollections == {<<>>, <<"ab">>, <<"ab", "cd">>}

LoopInit ==
    /\ collections \in LoopCollections
    /\ validationErrorIsValueError = FALSE
    /\ last = NoCall
    /\ main_logger_instance = None
    /\ global_client_config = None
    /\ fallbackHandlers = 0
    /\ rootHasHandlers = FALSE
    /\ configWasSet = FALSE
    /\ loggerWasSet = FALSE
    /\ utilLast = NoUtilCall
    /\ metaIn = <<>>
    /\ metaOut = <<>>
    /\ metaStep = "none"
    /\ \E tasks \in [1..MaxTasks -> Invocations] :
           loop = [tasks |-> tasks, running |-> 0, log |-> <<>>, start |-> collections]

LoopNext == \E t \in 1..MaxTasks : Step(t)

LoopSpec == LoopInit /\ [][LoopNext]_vars
-----------------------------------------------------------------------------
(* Reading the record of the last tool call *)

\* the tools that take a collection name
NameTools == {"create", "create_with_metadata", "get", "rename", "delete", "peek"}

Faulted == ~Idle /\ last.fault.at > 0
\* the call that raised
FaultCall == last.trace[last.fault.at]
FaultAtValidator == Faulted /\ FaultCall.fn = "validate_collection_name"
FaultAtClient == Faulted /\ FaultCall.fn \in ClientMethods

\* the client / collection method calls of a trace, in order
ClientCalls(trace) == SelectSeq(trace, LAMBDA c : c.fn \in ClientMethods)
CallsOf(trace, fn) == SelectSeq(trace, LAMBDA c : c.fn = fn)
FnsOf(trace) == [i \in 1..Len(trace) |-> trace[i].fn]

IsPrefix(s, t) == Len(s) <= Len(t) /\ s = SubSeq(t, 1, Len(s))

RaisedMcp(code, message) == last.outcome = Raised(McpError(code, message))

-----------------------------------------------------------------------------
(* C1 *)

\* C1: a tool call ends by returning a result or by raising McpError with code
\* INVALID_PARAMS or INTERNAL_ERROR, whatever exception (any subclass of
\* Exception) the validator, an accessor or the client raised.
C1_OnlyTwoCodesEscape ==
    ~Idle =>
        \/ last.outcome.kind = "returned"
        \/ /\ last.outcome.exc.cls = "McpError"
           /\ last.outcome.exc.code \in {INVALID_PARAMS, INTERNAL_ERROR}

-----------------------------------------------------------------------------
(* C2 *)

\* C2: when the client's lookup (get_collection, or delete_collection for the
\* delete tool) raises ValueError("Collection N does not exist.") for the
\* collection name N of a get, rename (N the original name), delete or peek
\* call, whatever the letter case of N, the tool raises McpError INVALID_PARAMS
\* "Tool Error: Collection 'N' not found.".
C2_NotFoundWhateverCase ==
    ( /\ last.tool \in {"get", "rename", "delete", "peek"}
      /\ Faulted
      /\ FaultCall.fn \in {"get_collection", "delete_collection"}
      /\ last.fault.exc = Exc("ValueError", NotExistMsg(last.input.collection_name), 0) )
        => RaisedMcp(INVALID_PARAMS,
               "Tool Error: Collection '" \o last.input.collection_name \o "' not found.")

-----------------------------------------------------------------------------
(* C3 *)

\* C3: when create_collection raises ValueError("Collection N already exists."),
\* both create tools raise McpError INVALID_PARAMS "Tool Error: Collection 'N'
\* already exists."; create_collection was called exactly once.
C3_DuplicateIsInvalidParams ==
    ( /\ last.tool \in {"create", "create_with_metadata"}
      /\ Faulted
      /\ FaultCall.fn = "create_collection"
      /\ last.fault.exc = Exc("ValueError", AlreadyExistsMsg(last.input.collection_name), 0) )
        => /\ RaisedMcp(INVALID_PARAMS,
                  "Tool Error: Collection '" \o last.input.collection_name
                      \o "' already exists.")
           /\ Len(CallsOf(last.trace, "create_collection")) = 1

\* a create-with-metadata call for a name with an upper-case letter met the duplicate
C3_Witness ==
    /\ last.tool = "create_with_metadata"
    /\ last.input.collection_name = "Ab"
    /\ Faulted
    /\ FaultCall.fn = "create_collection"
    /\ last.fault.exc = Exc("ValueError", AlreadyExistsMsg("Ab"), 0)
    /\ "Ab" \in Range(collections)

-----------------------------------------------------------------------------
(* C4 *)

\* C4: in every tool that takes a collection name, when validate_collection_name
\* raises ValidationError(msg), the tool raises McpError INVALID_PARAMS
\* "Validation Error: msg".
C4_ValidationErrorMessage ==
    ( /\ last.tool \in NameTools
      /\ FaultAtValidator
      /\ last.fault.exc.cls = "ValidationError" )
        => RaisedMcp(INVALID_PARAMS, "Validation Error: " \o last.fault.exc.msg)

-----------------------------------------------------------------------------
(* C5 *)

\* C5: when validate_collection_name raises for one of the names of a tool
\* call, that call made no call of a client or collection method, and the
\* client's collections are what they were before the call.
C5_ValidationBeforeClient ==
    [][ ( /\ last'.tool \in NameTools
          /\ last'.fault.at > 0
          /\ last'.trace[last'.fault.at].fn = "validate_collection_name" )
            => /\ ClientCalls(last'.trace) = <<>>
               /\ collections' = collections ]_vars

\* a rename of an existing collection whose new name the validator rejected
C5_Witness ==
    /\ last.tool = "rename"
    /\ FaultAtValidator
    /\ last.fault.at = 2
    /\ last.input.collection_name \in Range(collections)
-----------------------------------------------------------------------------
(* C6 *)

\* C6, as stated: no tool call issues two or more client / collection method
\* calls.
C6_AtMostOneClientCall ==
    ~Idle => Len(ClientCalls(last.trace)) <= 1

\* the client / collection methods a tool calls, in the order it calls them
ExpectedClientCalls(tool) ==
    CASE tool = "create"               -> <<"create_collection", "count">>
      [] tool = "create_with_metadata" -> <<"create_collection", "count">>
      [] tool = "list"                 -> <<"list_collections">>
      [] tool = "get"                  -> <<"get_collection", "count", "peek">>
      [] tool = "rename"               -> <<"get_collection", "modify">>
      [] tool = "delete"               -> <<"delete_collection">>
      [] tool = "peek"                 -> <<"get_collection", "peek">>

\* C6, amended: list and delete make at most one client call (list_collections,
\* delete_collection); create and create-with-metadata at most two
\* (create_collection, count), rename at most two (get_collection, modify),
\* peek at most two (get_collection, peek) and get at most three
\* (get_collection, count, peek), each in that order; a call that meets no
\* fault makes all of them.
C6_ClientCallsPerTool ==
    ~Idle =>
        /\ IsPrefix(FnsOf(ClientCalls(last.trace)), ExpectedClientCalls(last.tool))
        /\ ( last.fault.at = 0 /\ last.outcome.kind = "returned" )
               => FnsOf(ClientCalls(last.trace)) = ExpectedClientCalls(last.tool)

\* a get call that returned after its three client calls
C6_Witness ==
    /\ last.tool = "get"
    /\ last.outcome.kind = "returned"
    /\ last.fault.at = 0
    /\ Len(ClientCalls(last.trace)) = 3

-----------------------------------------------------------------------------
(* C7 *)

\* "Tool Error: An unexpected error occurred ... collection 'N'. Details: M"
UnexpectedMsg(tool, n, m) ==
    "Tool Error: An unexpected error occurred "
        \o ( CASE tool \in {"create", "create_with_metadata"} -> "while creating"
               [] tool = "get"    -> "while getting"
               [] tool = "rename" -> "renaming"
               [] tool = "delete" -> "deleting"
               [] tool = "peek"   -> "peeking" )
        \o " collection '" \o n \o "'. Details: " \o m

ListingMsg(m) == "Tool Error: Error listing collections. Details: " \o m

\* C7, as stated: a client exception that is neither a ValueError nor a
\* ValidationError, with message M, makes each tool raise McpError
\* INTERNAL_ERROR with the tool's "unexpected error" message; the list tool
\* maps every exception to INTERNAL_ERROR "Tool Error: Error listing
\* collections. Details: M".
C7_UnexpectedIsInternalError ==
    /\ ( last.tool = "list" /\ Faulted )
           => RaisedMcp(INTERNAL_ERROR, ListingMsg(last.fault.exc.msg))
    /\ ( /\ last.tool \in NameTools
         /\ FaultAtClient
         /\ last.fault.exc.cls \notin {"ValueError", "ValidationError"} )
           => RaisedMcp(INTERNAL_ERROR,
                  UnexpectedMsg(last.tool, last.input.collection_name, last.fault.exc.msg))

\* C7, amended: as stated, except that the create tool maps an
\* InvalidDimensionException to INTERNAL_ERROR "ChromaDB Error: Invalid dimension
\* configuration. M", the create-with-metadata tool re-raises an McpError as it
\* is and maps an exception whose message contains "Collection N already
\* exists." to INVALID_PARAMS "Tool Error: Collection 'N' already exists.", and
\* the get tool returns a result when its sample peek raises.
C7_UnexpectedIsInternalErrorButFour ==
    /\ ( last.tool = "list" /\ Faulted )
           => RaisedMcp(INTERNAL_ERROR, ListingMsg(last.fault.exc.msg))
    /\ ( /\ last.tool \in NameTools
         /\ FaultAtClient
         /\ last.fault.exc.cls \notin {"ValueError", "ValidationError"} )
           => LET n == last.input.collection_name
                  e == last.fault.exc
              IN  IF last.tool = "get" /\ FaultCall.fn = "peek"
                  THEN last.outcome.kind = "returned"
                  ELSE IF last.tool = "create" /\ e.cls = "InvalidDimensionException"
                  THEN RaisedMcp(INTERNAL_ERROR,
                           "ChromaDB Error: Invalid dimension configuration. " \o e.msg)
                  ELSE IF last.tool = "create_with_metadata" /\ e.cls = "McpError"
                  THEN last.outcome = Raised(e)
                  ELSE IF /\ last.tool = "create_with_metadata"
                          /\ Contains(AlreadyExistsMsg(n), e.msg)
                  THEN RaisedMcp(INVALID_PARAMS,
                           "Tool Error: Collection '" \o n \o "' already exists.")
                  ELSE RaisedMcp(INTERNAL_ERROR, UnexpectedMsg(last.tool, n, e.msg))

\* a rename whose modify raised a plain Exception
C7_Witness ==
    /\ last.tool = "rename"
    /\ Faulted
    /\ FaultCall.fn = "modify"
    /\ last.fault.exc = Exc("Exception", GenericMsg, 0)
    /\ last.outcome.exc.code = INTERNAL_ERROR

-----------------------------------------------------------------------------
(* C8 *)

\* the names of cs, in order, that contain frag case-insensitively; all of
\* them when frag is absent
Matching(cs, frag) ==
    SelectSeq(cs, LAMBDA n : IsNone(frag) \/ Contains(Lower(Val(frag)), Lower(n)))

-----------------------------------------------------------------------------
(* C9 *)

\* C9: a list call with limit 0 returns what the same call with no limit
\* returns: every matching name from the offset onwards.
C9_LimitZeroIsNoLimit ==
    ( last.tool = "list" /\ last.fault.at = 0 /\ last.input.limit = Some(0) ) =>
        LET F   == Matching(collections, last.input.name_contains)
            off == IF IsNone(last.input.offset) THEN 0 ELSE Val(last.input.offset)
        IN  last.outcome.data.collection_names = SubSeq(F, off + 1, Len(F))

-----------------------------------------------------------------------------
(* C10 *)

\* C10: a rename call validates the original name, validates the new name,
\* calls get_collection(original) and then modify(new), in this order; modify
\* is called at most once, and only after both validations and get_collection
\* returned; when get_collection raises, modify is not called.
C10_RenameOrder ==
    last.tool = "rename" =>
        LET o == last.input.collection_name
            w == last.input.new_name
            t == SelectSeq(last.trace, LAMBDA c :
                     c.fn \in {"validate_collection_name", "get_collection", "modify"})
            modified == Len(CallsOf(last.trace, "modify"))
        IN  /\ IsPrefix(t, << Call("validate_collection_name", o, 0),
                              Call("validate_collection_name", w, 0),
                              Call("get_collection", o, 0),
                              Call("modify", w, 0) >>)
            /\ modified <= 1
            /\ modified = 1 => ( Len(t) = 4 /\ ( last.fault.at = 0 \/ FaultCall.fn = "modify" ) )
            /\ ( Faulted /\ FaultCall.fn = "get_collection" ) => modified = 0

\* a rename that went through: the collection now has the new name
C10_Witness ==
    /\ last.tool = "rename"
    /\ last.outcome.kind = "returned"
    /\ Len(CallsOf(last.trace, "modify")) = 1
    /\ last.input.new_name \in Range(collections)
    /\ last.input.collection_name \notin Range(collections)
-----------------------------------------------------------------------------
(* C11 *)

\* the rename call in progress met ValueError("Collection W already exists.")
\* at modify, W being its new name
RenameMetDuplicate ==
    /\ ~Idle
    /\ last.tool = "rename"
    /\ Faulted
    /\ FaultCall.fn = "modify"
    /\ last.fault.exc = Exc("ValueError", AlreadyExistsMsg(last.input.new_name), 0)

\* C11: for every pair of names (O, W), whatever their letter case, when O
\* exists and modify raises ValueError "Collection W already exists.", the
\* rename tool raises McpError with code INVALID_PARAMS and message
\* "Tool Error: Collection name 'W' already exists.".
C11_RenameDuplicateWhateverCase ==
    RenameMetDuplicate =>
        RaisedMcp(INVALID_PARAMS,
            "Tool Error: Collection name '" \o last.input.new_name \o "' already exists.")

\* the same for the new names that have no upper-case letter
C11_RenameDuplicateLowerCase ==
    (RenameMetDuplicate /\ Lower(last.input.new_name) = last.input.new_name) =>
        RaisedMcp(INVALID_PARAMS,
            "Tool Error: Collection name '" \o last.input.new_name \o "' already exists.")
-----------------------------------------------------------------------------
(* C12 *)

\* C12: the logger and the server configuration are set once: when
\* set_main_logger or set_server_config has stored a value, no later call of
\* any function changes the stored value.
C12_InitOnce ==
    [][ /\ (~IsNone(main_logger_instance) => main_logger_instance' = main_logger_instance)
        /\ (~IsNone(global_client_config) => global_client_config' = global_client_config)
      ]_vars

\* the stored values change only in a call of their setter
C12_OnlySettersStore ==
    [][ /\ (main_logger_instance' # main_logger_instance
               => utilLast'.fn = "set_main_logger" /\ main_logger_instance' = utilLast'.arg)
        /\ (global_client_config' # global_client_config
               => utilLast'.fn = "set_server_config" /\ global_client_config' = utilLast'.arg)
      ]_vars
-----------------------------------------------------------------------------
(* C13 *)

NotInitialized == UtilRaised(McpError(INTERNAL_ERROR, "Server configuration not initialized"))

-----------------------------------------------------------------------------
(* C14 *)

-----------------------------------------------------------------------------
(* C15 *)

\* the get call in progress came to its sample read
GetPeeked == ~Idle /\ last.tool = "get" /\ CallsOf(last.trace, "peek") # <<>>

\* C15: in the get tool a failure of the sample read does not fail the call:
\* get_collection and count are called, peek is called exactly once with
\* limit=5, and if peek raises an exception E the tool returns a result whose
\* sample_entries is {"error": "Could not peek: E"}; when peek succeeds the
\* result has no "embeddings" key in sample_entries; in both cases name, id,
\* count and the reconstructed metadata are those of the collection.
C15_PeekFailureIsReported ==
    GetPeeked =>
        /\ FnsOf(ClientCalls(last.trace)) = <<"get_collection", "count", "peek">>
        /\ CallsOf(last.trace, "peek") = <<Call("peek", "", 5)>>
        /\ Faulted =>
               /\ last.outcome.kind = "returned"
               /\ last.outcome.data.sample_entries =
                      PyDict(<< <<"error", PyStr("Could not peek: " \o last.fault.exc.msg)>> >>)
        /\ (~Faulted /\ last.outcome.kind = "returned") =>
               LET sample_entries == last.outcome.data.sample_entries IN
               /\ IsPyDict(sample_entries) => "embeddings" \notin Keys(sample_entries.dict)
               /\ sample_entries =
                      IF IsPyDict(last.seen.peek)
                      THEN PyDict(Del(last.seen.peek.dict, "embeddings"))
                      ELSE last.seen.peek
        /\ last.outcome.kind = "returned" =>
               /\ last.outcome.data.name = last.input.collection_name
               /\ last.outcome.data.id = IdOf(last.input.collection_name)
               /\ last.outcome.data.count = last.seen.count
               /\ last.outcome.data.metadata = PyDict(_reconstruct_metadata(last.seen.metadata))

\* peek raised in a get call for a collection that holds two entries
C15_Witness ==
    /\ GetPeeked
    /\ Faulted
    /\ FaultCall.fn = "peek"
    /\ last.fault.exc = Exc("Exception", GenericMsg, 0)
    /\ last.seen.count = 2
    /\ last.outcome.kind = "returned"
-----------------------------------------------------------------------------
(* C16 *)

\* the value as JSON shows it: every array, at any depth, as the list of its elements
RECURSIVE ListForm(_)
ListForm(v) ==
    IF HasToList(v)
    THEN PyList([i \in 1..Len(v.ndarray) |-> ListForm(v.ndarray[i])])
    ELSE IF IsPyList(v)
    THEN PyList([i \in 1..Len(v.list) |-> ListForm(v.list[i])])
    ELSE IF IsPyDict(v)
    THEN PyDict([i \in 1..Len(v.dict) |-> <<v.dict[i][1], ListForm(v.dict[i][2])>>])
    ELSE v

\* the peek call in progress came to the collection's peek
PeekPeeked == ~Idle /\ last.tool = "peek" /\ CallsOf(last.trace, "peek") # <<>>

-----------------------------------------------------------------------------
(* C17 *)

CreateTools == {"create", "create_with_metadata"}

\* the metadata a create call of the record rec is to pass: the parsed
\* dictionary, or the default settings with each key K as "chroma:setting:"
\* followed by K with ':' replaced by '_'
ExpectedCreateMetadata(rec) ==
    IF rec.tool = "create_with_metadata"
    THEN JsonLoads(rec.input.metadata).value
    ELSE PyDict([i \in 1..Len(rec.seen.settings) |->
                    << "chroma:setting:" \o Replace(rec.seen.settings[i][1], ":", "_"),
                       rec.seen.settings[i][2] >>])

-----------------------------------------------------------------------------
(* C18 *)

\* the tools that return json.dumps of a dict
JsonTools == {"create", "create_with_metadata", "list", "get", "peek"}

\* the values of a result that are not of a fixed type
DynamicValues(data) ==
    CASE data.shape \in {"collection", "created"} -> {data.metadata}
      [] data.shape = "info" -> {data.metadata, data.sample_entries}
      [] data.shape = "peek" -> {data.entries}
      [] OTHER -> {}

\* C18: every successful tool call returns a list of exactly one text content
\* item; for create, create-with-metadata, list, get and peek its text is the
\* JSON of an object; for rename it is "Collection 'O' successfully renamed to
\* 'W'." and for delete "Collection 'N' deleted successfully.", and these two
\* are returned only when modify, respectively delete_collection, returned
\* without raising.
C18_OneTextItem ==
    (~Idle /\ last.outcome.kind = "returned") =>
        /\ Len(last.outcome.content) = 1
        /\ last.outcome.content[1].type = "text"
        /\ last.tool \in JsonTools =>
               /\ last.outcome.data # NoData
               /\ last.outcome.text = ""
               /\ \A v \in DynamicValues(last.outcome.data) : JsonSerializable(v)
        /\ last.tool = "rename" =>
               /\ last.outcome.text =
                      "Collection '" \o last.input.collection_name
                          \o "' successfully renamed to '" \o last.input.new_name \o "'."
               /\ last.outcome.data = NoData
               /\ ~Faulted
               /\ last.trace[Len(last.trace)] = Call("modify", last.input.new_name, 0)
               /\ last.input.new_name \in Range(collections)
        /\ last.tool = "delete" =>
               /\ last.outcome.text =
                      "Collection '" \o last.input.collection_name \o "' deleted successfully."
               /\ last.outcome.data = NoData
               /\ ~Faulted
               /\ last.trace[Len(last.trace)] =
                      Call("delete_collection", last.input.collection_name, 0)
               /\ last.input.collection_name \notin Range(collections)

\* a delete call returned its confirmation and another collection is left
C18_Witness ==
    /\ last.tool = "delete"
    /\ last.outcome.kind = "returned"
    /\ last.input.collection_name = "Ab"
    /\ collections = <<"ab">>
-----------------------------------------------------------------------------
(* C19 *)

\* two dicts are equal: the same keys with the same values, in any order
DictEq(a, b) == {a[i] : i \in 1..Len(a)} = {b[i] : i \in 1..Len(b)}

\* the settings were flattened and reconstructed, and the result has them back
RoundTrips ==
    /\ "settings" \in Keys(metaOut)
    /\ DictEq(Get(metaOut, "settings").dict, metaIn)

\* C19: flattening and reconstruction of settings round-trip: for every
\* settings dictionary S, flattening S as the create tool does and passing the
\* result to _reconstruct_metadata yields metadata whose "settings" entry
\* equals S.
C19_SettingsRoundTrip ==
    metaStep = "reconstructed" => RoundTrips

\* the same for the settings that are not empty and have no '_' in a key
C19_RoundTripWithoutUnderscore ==
    ( /\ metaStep = "reconstructed"
      /\ metaIn # <<>>
      /\ \A k \in Keys(metaIn) : ~Contains("_", k) )
        => RoundTrips
-----------------------------------------------------------------------------
(* C20 *)

\* the create call in progress met an exception at create_collection
CreateMetException ==
    /\ ~Idle
    /\ last.tool \in CreateTools
    /\ Faulted
    /\ FaultCall.fn = "create_collection"

\* the error code the other create tool raises for the same name and exception
OtherCreateToolCode ==
    IF last.tool = "create"
    THEN CreateWithMetadataExcept(last.input.collection_name, last.fault.exc).code
    ELSE CreateExcept(last.input.collection_name, last.fault.exc).code

\* C20: the error classification depends only on the text of the library's
\* exception, not on its type or on the create tool used: for every exception
\* the client's create_collection raises, _create_collection_impl and
\* _create_collection_with_metadata_impl raise McpError with the same code.
C20_SameCodeInBothCreateTools ==
    CreateMetException => last.outcome.exc.code = OtherCreateToolCode

\* the same for the two exceptions of the tests: the duplicate as a ValueError
\* and an unexpected Exception
C20_SameCodeForTestedExceptions ==
    ( /\ CreateMetException
      /\ last.fault.exc \in
             {Exc("ValueError", AlreadyExistsMsg(last.input.collection_name), 0),
              Exc("Exception", GenericMsg, 0)} )
        => last.outcome.exc.code = OtherCreateToolCode
-----------------------------------------------------------------------------
(* C21 *)

\* the metadata text is not valid JSON, or decodes to something other than an
\* object
BadMetadata(metadata_str) ==
    ~JsonLoads(metadata_str).decodes \/ ~JsonLoads(metadata_str).isDict

CreateWithBadMetadata ==
    ~Idle /\ last.tool = "create_with_metadata" /\ BadMetadata(last.input.metadata)

\* C21: a create-with-metadata call whose metadata string is not valid JSON, or
\* decodes to a value other than an object, raises McpError with code
\* INVALID_PARAMS, and neither validate_collection_name nor a client method is
\* called.
C21_BadMetadataIsInvalidParams ==
    CreateWithBadMetadata =>
        /\ last.outcome.kind = "raised"
        /\ last.outcome.exc.cls = "McpError"
        /\ last.outcome.exc.code = INVALID_PARAMS
        /\ last.trace = <<>>

\* what holds of every such call: nothing is called and McpError is raised;
\* the code is INVALID_PARAMS when json.loads raised JSONDecodeError or
\* returned a value that is not a dict
C21_CaughtParseErrorIsInvalidParams ==
    CreateWithBadMetadata =>
        /\ last.outcome.kind = "raised"
        /\ last.outcome.exc.cls = "McpError"
        /\ last.trace = <<>>
        /\ JsonLoads(last.input.metadata).cls \in {"", "JSONDecodeError"}
               => last.outcome.exc.code = INVALID_PARAMS
-----------------------------------------------------------------------------
(* C22 *)

IsSettingKey(key) == StartsWith(key, "chroma:setting:") \/ StartsWith(key, "hnsw:")
IsUserKey(key) == ~IsSettingKey(key) /\ ~StartsWith(key, "chroma:")

\* the name a setting key has under "settings"
SettingName(key) ==
    IF StartsWith(key, "chroma:setting:")
    THEN Replace(SubSeq(key, Len("chroma:setting:") + 1, Len(key)), "_", ":")
    ELSE key

\* the result has a dict of settings
HasSettings(result) ==
    "settings" \in Keys(result) /\ IsPyDict(Get(result, "settings"))

\* the result of _reconstruct_metadata partitions the keys of its input, for
\* the keys of the input that are in K
Partitions(input, result, K) ==
    /\ \A key \in Keys(input) \cap K :
         /\ IsSettingKey(key) =>
              /\ key \notin Keys(result)
              /\ HasSettings(result)
              /\ SettingName(key) \in Keys(Get(result, "settings").dict)
         /\ IsUserKey(key) =>
              /\ key \in Keys(result)
              /\ Get(result, key) = Get(input, key)
         /\ (~IsSettingKey(key) /\ ~IsUserKey(key)) => key \notin Keys(result)
    /\ (\E key \in Keys(input) \cap K : IsSettingKey(key)) => HasSettings(result)
    /\ (\A key \in Keys(input) : ~IsSettingKey(key)) => ~HasSettings(result)

\* C22: _reconstruct_metadata partitions its input keys: a key starting with
\* "chroma:setting:" or "hnsw:" appears only under "settings"; any other key
\* not starting with "chroma:" is at the top level of the result with exactly
\* its input value; the other keys starting with "chroma:" are dropped;
\* "settings" is there exactly when the input had a setting key; and a None or
\* empty input yields {}.
C22_ReconstructPartitions ==
    /\ metaStep = "rebuilt" =>
         /\ Partitions(metaIn, metaOut, MetadataKeys)
         /\ metaIn = <<>> => metaOut = <<>>
    /\ metaStep = "rebuilt from None" => metaOut = <<>>

\* the same without the user key "settings" and without the key that is the
\* prefix "chroma:setting:" alone
C22_PartitionsButTwoKeys ==
    /\ metaStep = "rebuilt" =>
         /\ "settings" \notin Keys(metaIn) =>
                Partitions(metaIn, metaOut, MetadataKeys \ {"chroma:setting:"})
         /\ metaIn = <<>> => metaOut = <<>>
    /\ metaStep = "rebuilt from None" => metaOut = <<>>
-----------------------------------------------------------------------------
(* C23 *)

ReadTools == {"list", "get", "peek"}

\* the client and collection methods that write
WritingMethods ==
    {"create_collection", "delete_collection", "modify", "add", "update", "delete"}

\* C23: the read tools are read-only: a list, get or peek call, whether it
\* returns or raises, calls no create_collection, delete_collection, modify,
\* add, update or delete, and leaves the collections and their names as they
\* were.
C23_ReadToolsReadOnly ==
    [][ last'.tool \in ReadTools =>
            /\ collections' = collections
            /\ Range(FnsOf(last'.trace)) \cap WritingMethods = {} ]_vars

\* a peek call got its collection from a client that holds two collections or
\* more, called peek on it, and raised
C23_Witness ==
    /\ last.tool = "peek"
    /\ Len(collections) >= 2
    /\ FnsOf(ClientCalls(last.trace)) = <<"get_collection", "peek">>
    /\ last.outcome.kind = "raised"
-----------------------------------------------------------------------------
(* C24 *)

-----------------------------------------------------------------------------
(* C25 *)

\* the client calls of each task are next to one another in the log
Contiguous(log) ==
    \A i \in 1..Len(log), k \in 1..Len(log) :
        (i < k /\ log[i][1] = log[k][1]) =>
            \A j \in i..k : log[j][1] = log[i][1]

\* the task run from its entry to its return or raise on the collections cs
RECURSIVE RunTask(_, _)
RunTask(cs, task) ==
    IF task.done THEN [cs |-> cs, task |-> task]
    ELSE LET r == OneCall(cs, task) IN RunTask(r.cs, r.task)

\* the tasks run one after another in the order given: the collections and
\* the tasks afterwards
RECURSIVE RunInOrder(_, _, _)
RunInOrder(cs, tasks, order) ==
    IF order = <<>> THEN [cs |-> cs, tasks |-> tasks]
    ELSE LET r == RunTask(cs, tasks[Head(order)])
         IN  RunInOrder(r.cs, [tasks EXCEPT ![Head(order)] = r.task], Tail(order))

\* the orders of the tasks
Orders == {o \in [1..MaxTasks -> 1..MaxTasks] : \A i, j \in 1..MaxTasks : o[i] = o[j] => i = j}

\* the tasks as they were scheduled
Scheduled(tasks) ==
    [t \in 1..Len(tasks) |-> Task(tasks[t].tool, tasks[t].input)]

AllDone == loop # NoLoop /\ \A t \in 1..MaxTasks : loop.tasks[t].done

\* C25: tool invocations do not interleave: of the tool calls scheduled on one
\* event loop, the client calls of one are never separated by a client call
\* of another, and once all have ended the collections and the outcomes are
\* those of the calls run one after another in some order.
C25_NoInterleaving ==
    loop # NoLoop =>
        /\ Contiguous(loop.log)
        /\ AllDone =>
             \E order \in Orders :
                 LET r == RunInOrder(loop.start, Scheduled(loop.tasks), order)
                 IN  r.cs = collections /\ r.tasks = loop.tasks

\* a rename and a get were scheduled together and both returned: the rename
\* got its collection and modified it, the get called get_collection, count
\* and peek
C25_Witness ==
    /\ AllDone
    /\ \E t, u \in 1..MaxTasks :
         /\ loop.tasks[t].tool = "rename" /\ loop.tasks[t].outcome.kind = "returned"
         /\ loop.tasks[u].tool = "get" /\ loop.tasks[u].outcome.kind = "returned"
         /\ SelectSeq(loop.log, LAMBDA e : e[1] = t)
                = << <<t, "get_collection">>, <<t, "modify">> >>
         /\ SelectSeq(loop.log, LAMBDA e : e[1] = u)
                = << <<u, "get_collection">>, <<u, "count">>, <<u, "peek">> >>
-----------------------------------------------------------------------------
(* C26 *)

\* the result of the list tool for the page of size L at offset k * L
Page(names, L, k, name_contains) ==
    ListResult(names, Some(L), Some(k * L), name_contains)

\* the names of the pages k, k + 1, ..., n one after another
RECURSIVE PagesFrom(_, _, _, _, _)
PagesFrom(names, L, k, n, name_contains) ==
    IF k > n THEN <<>>
    ELSE Page(names, L, k, name_contains).collection_names
             \o PagesFrom(names, L, k + 1, n, name_contains)

\* C26: pagination of the list tool covers the filtered list exactly: when
\* the list tool has returned the first page for a name_contains and a page
\* size L >= 1, that page and the pages with limit L at offsets L, 2L, ...
\* concatenate to the filtered list; every page has at most L names and
\* every page reports the same total_count.
C26_PagesCoverFiltered ==
    ( /\ last.tool = "list"
      /\ last.outcome.kind = "returned"
      /\ ~IsNone(last.input.limit) /\ Val(last.input.limit) >= 1
      /\ last.input.offset = Some(0) )
        => LET name_contains == last.input.name_contains
               L        == Val(last.input.limit)
               filtered == FilteredNames(collections, name_contains)
               n        == Len(filtered)
           IN  /\ last.outcome.data = Page(collections, L, 0, name_contains)
               /\ PagesFrom(collections, L, 0, n, name_contains) = filtered
               /\ \A k \in 0..n :
                    /\ Len(Page(collections, L, k, name_contains).collection_names) <= L
                    /\ Page(collections, L, k, name_contains).total_count
                           = last.outcome.data.total_count

\* the list tool returned the first page of size 1 of a filtered list of
\* three names, which the client's list of three names all are
C26_Witness ==
    /\ last.tool = "list"
    /\ last.outcome.kind = "returned"
    /\ last.input.limit = Some(1)
    /\ last.input.offset = Some(0)
    /\ Truthy(last.input.name_contains)
    /\ Len(collections) = 3
    /\ last.outcome.data.total_count = 3
    /\ last.outcome.data.collection_names = <<collections[1]>>
-----------------------------------------------------------------------------
(* C27 *)

\* the logger the get_logger call of the step returns
ReturnedLogger == Val(utilLast'.outcome.value)

-----------------------------------------------------------------------------
(* C28 *)

ConvertedKeys == {"embeddings", "distances"}

\* b is a with each array replaced by its list form, anything else kept
ListFormOrSame(a, b) == b = (IF HasToList(a) THEN ToList(a) ELSE a)

\* the list out is the list or array in, element by element: an array in its
\* list form, a list with its arrays in list form, anything else as it is
SameShape(in, out) ==
    /\ IsPyList(out)
    /\ Len(out.list) = Len(Elements(in))
    /\ \A i \in 1..Len(out.list) :
         LET a == Elements(in)[i]
             b == out.list[i]
         IN  IF IsPyList(a)
             THEN /\ IsPyList(b)
                  /\ Len(b.list) = Len(a.list)
                  /\ \A j \in 1..Len(a.list) : ListFormOrSame(a.list[j], b.list[j])
             ELSE ListFormOrSame(a, b)

\* the peek tool returned what it made of a dict the client's peek returned
PeekConverted ==
    /\ last.tool = "peek"
    /\ last.outcome.kind = "returned"
    /\ IsPyDict(last.seen.peek)

\* C28: the peek tool's conversion of the result preserves shape: the
\* "embeddings" and "distances" lists of the output have the length and order
\* they have in the client's peek result, each array-like element (top level
\* or one level nested) is replaced by its list form, None and plain elements
\* are kept, every other key is passed through unchanged, and the dict the
\* client returned is not modified.
C28_PeekPreservesShape ==
    PeekConverted =>
        LET in  == last.seen.peek.dict
            out == last.outcome.data.entries.dict
        IN  /\ [i \in 1..Len(out) |-> out[i][1]] = [i \in 1..Len(in) |-> in[i][1]]
            /\ \A key \in Keys(in) :
                 IF key \in ConvertedKeys /\ ~IsPyNone(Get(in, key))
                 THEN SameShape(Get(in, key), Get(out, key))
                 ELSE Get(out, key) = Get(in, key)
            /\ PeekObjects(last.seen.peek).peek_results = last.seen.peek

\* the peek tool returned embeddings and distances of a result that had an
\* array one level nested in its embeddings: the output is not the input
C28_Witness ==
    /\ PeekConverted
    /\ ConvertedKeys \subseteq Keys(last.seen.peek.dict)
    /\ \E i \in 1..Len(Get(last.seen.peek.dict, "embeddings").list) :
         LET item == Get(last.seen.peek.dict, "embeddings").list[i]
         IN  IsPyList(item) /\ \E j \in 1..Len(item.list) : HasToList(item.list[j])
    /\ last.outcome.data.entries # last.seen.peek

=============================================================================
